---- MODULE Spec2Model ----
(***************************************************************************)
(* A model of the work-journal summarizer: the journal directory and its   *)
(* date-named files (journal.py), the summary run and its early exits      *)
(* (main.py, summarize.py), the Gmail sender (email_sender.py) and the     *)
(* reply-processing loop (reply_processor.py).                             *)
(*                                                                         *)
(* A file name is a record: the digits of its MM-DD prefix (the year is    *)
(* 2026 throughout) and the rest of the name as a sequence of tokens, so   *)
(* that the regular expressions and the glob of the code are predicates    *)
(* over the tokens.  A date is a record [month, day] that exists only for  *)
(* digits that name a day of the calendar; datetime.date raises ValueError *)
(* on the others.                                                          *)
(***************************************************************************)
EXTENDS Integers, Sequences, FiniteSets, TLC

VARIABLES
    today,       \* date.today()
    journal,     \* journal.get_journal_path(): file name -> content
    summaries,   \* config.get_summaries_path(): set of [name, mtime]
    pending,     \* pending-feedback.json: NoFile or the list of feedback items
    inbox,       \* unread replies in the Gmail inbox, oldest first
    gmailToken,  \* gmail-token.json: "valid", "expired" or "absent"
    apiKey,      \* anthropic-api-key.txt exists
    pc,          \* "idle" between processes, "exited" after main()
    runs,        \* processes started so far
    run,         \* what the last main() did: arguments, result, effects
    pre,         \* the files as they were when the last main() started
    call,        \* the last direct call of a function
    configYaml,  \* config/config.yaml: absent, or what yaml.safe_load makes of it
    base,        \* the base dict of a direct call of _deep_merge
    entriesDir,  \* config.get_entries_path(): file name -> content
    stagingDir   \* config.get_staging_path(): file name -> content

configVars == <<configYaml, base>>

heartbeatVars == <<entriesDir, stagingDir>>

vars == <<today, journal, summaries, pending, inbox, gmailToken, apiKey,
          pc, runs, run, pre, call, configVars, heartbeatVars>>

-----------------------------------------------------------------------------
(* Bounds of the model *)

MaxFiles == 2
MaxRuns == 2
MaxReplies == 2
MaxLookback == 2

-----------------------------------------------------------------------------
(* datetime.date *)

Date(m, d) == [month |-> m, day |-> d]

\* "None" where a date is expected
NoDate == [month |-> 0, day |-> 0]

DaysInMonth == <<31, 28, 31, 30, 31, 30, 31, 31, 30, 31, 30, 31>>

\* date(2026, m, d) succeeds
IsCalendarDate(m, d) == m \in 1..12 /\ d \in 1..DaysInMonth[m]

RECURSIVE DaysBefore(_)
DaysBefore(m) == IF m = 1 THEN 0 ELSE DaysBefore(m - 1) + DaysInMonth[m - 1]

toordinal(dt) == DaysBefore(dt.month) + dt.day

fromordinal(n) ==
    LET m == CHOOSE k \in 1..12 : DaysBefore(k) < n /\ n <= DaysBefore(k) + DaysInMonth[k]
    IN  Date(m, n - DaysBefore(m))

\* date1 > date2, as Python compares dates: by (year, month, day)
DateGT(a, b) == a.month > b.month \/ (a.month = b.month /\ a.day > b.day)

DateGE(a, b) == a = b \/ DateGT(a, b)

\* (a - b).days
DaysBetween(a, b) == toordinal(a) - toordinal(b)

\* a - timedelta(days=n)
MinusDays(a, n) == fromordinal(toordinal(a) - n)

-----------------------------------------------------------------------------
(* Results of calls: a value, or the exception that left the call *)

Ok(v) == [exc |-> "", val |-> v]
Raise(e) == [exc |-> e, val |-> <<>>]

-----------------------------------------------------------------------------
(* File names *)

EntrySuffix == <<".md">>
SummarySuffix == <<"-SUMMARY-14-days", ".md">>
DraftSuffix == <<"-SUMMARY-14-days", "-DRAFT", ".md">>

\* <MM-DD><suffix>, and a name with no date prefix
DatedName(m, d, suffix) == [dated |-> TRUE, month |-> m, day |-> d, suffix |-> suffix]
PlainName(suffix) == [dated |-> FALSE, month |-> 0, day |-> 0, suffix |-> suffix]

\* date.isoformat() followed by a suffix
IsoName(dt, suffix) == DatedName(dt.month, dt.day, suffix)

\* ^(\d{4})-(\d{2})-(\d{2})\.md$
EntryPattern(name) == name.dated /\ name.suffix = <<".md">>

\* ^(\d{4})-(\d{2})-(\d{2})-SUMMARY-14-days.*\.md$
SummaryPattern(name) ==
    /\ name.dated
    /\ Len(name.suffix) >= 2
    /\ name.suffix[1] = "-SUMMARY-14-days"
    /\ name.suffix[Len(name.suffix)] = ".md"

\* date(int(group(1)), int(group(2)), int(group(3)))
MakeDate(name) ==
    IF IsCalendarDate(name.month, name.day)
    THEN Ok(Date(name.month, name.day))
    ELSE Raise("ValueError")

-----------------------------------------------------------------------------
(* journal.py *)

parse_date_from_filename(name) ==
    IF EntryPattern(name) THEN MakeDate(name) ELSE Ok(NoDate)

\* The loop of find_latest_summary over the files not yet visited
RECURSIVE LatestLoop(_, _)
LatestLoop(files, latest) ==
    IF files = {} THEN Ok(latest)
    ELSE LET file == CHOOSE f \in files : TRUE
             rest == files \ {file}
         IN  IF SummaryPattern(file)
             THEN LET summary_date == MakeDate(file)
                  IN  IF summary_date.exc # "" THEN summary_date
                      ELSE IF latest = NoDate \/ DateGT(summary_date.val, latest)
                           THEN LatestLoop(rest, summary_date.val)
                           ELSE LatestLoop(rest, latest)
             ELSE LatestLoop(rest, latest)

find_latest_summary(dir) == LatestLoop(DOMAIN dir, NoDate)

\* needs_summary with "days_since_summary > lookback_days"
needs_summary_strict(dir, now, lookback_days) ==
    LET latest_summary == find_latest_summary(dir)
    IN  IF latest_summary.exc # "" THEN latest_summary
        ELSE IF latest_summary.val = NoDate THEN Ok(TRUE)
        ELSE Ok(DaysBetween(now, latest_summary.val) > lookback_days)

needs_summary(dir, now, lookback_days) ==
    LET latest_summary == find_latest_summary(dir)
    IN  IF latest_summary.exc # "" THEN latest_summary
        ELSE IF latest_summary.val = NoDate THEN Ok(TRUE)
        ELSE Ok(DaysBetween(now, latest_summary.val) >= lookback_days)

\* entries.sort(key=lambda e: e["date"]): a stable insertion sort
RECURSIVE InsertByDate(_, _)
InsertByDate(sorted, e) ==
    IF sorted = <<>> THEN <<e>>
    ELSE IF DateGT(Head(sorted).date, e.date)
         THEN <<e>> \o sorted
         ELSE <<Head(sorted)>> \o InsertByDate(Tail(sorted), e)

RECURSIVE SortByDate(_)
SortByDate(entries) ==
    IF entries = <<>> THEN <<>>
    ELSE InsertByDate(SortByDate(SubSeq(entries, 1, Len(entries) - 1)),
                      entries[Len(entries)])

\* if entry_date and entry_date >= cutoff
KeepEntry(entry_date, cutoff) == entry_date # NoDate /\ DateGE(entry_date, cutoff)

\* The loop of gather_entries over the files not yet visited
RECURSIVE GatherLoop(_, _, _, _)
GatherLoop(dir, files, cutoff, entries) ==
    IF files = {} THEN Ok(entries)
    ELSE LET file == CHOOSE f \in files : TRUE
             rest == files \ {file}
             entry_date == parse_date_from_filename(file)
         IN  IF entry_date.exc # "" THEN entry_date
             ELSE IF KeepEntry(entry_date.val, cutoff)
                  THEN GatherLoop(dir, rest, cutoff,
                           Append(entries, [date |-> entry_date.val,
                                            filename |-> file,
                                            content |-> dir[file]]))
                  ELSE GatherLoop(dir, rest, cutoff, entries)

gather_entries(dir, now, lookback_days) ==
    LET cutoff == MinusDays(now, lookback_days)
        entries == GatherLoop(dir, DOMAIN dir, cutoff, <<>>)
    IN  IF entries.exc # "" THEN entries ELSE Ok(SortByDate(entries.val))

-----------------------------------------------------------------------------
(* The state a process works on, threaded through the calls it makes:      *)
(* the files, the inbox and the log of its effects, in order.  An effect   *)
(* is [op, arg, res]: a call of the LLM API, a file written, renamed or    *)
(* read, a message handed to Gmail, a line printed.                        *)

Effect(op, arg, res) == [op |-> op, arg |-> arg, res |-> res]

Logged(st, op, arg, res) == [st EXCEPT !.log = Append(@, Effect(op, arg, res))]

\* A call's outcome together with the state it leaves
Out(r, st) == [exc |-> r.exc, val |-> r.val, st |-> st]

-----------------------------------------------------------------------------
(* summarize.py *)

\* key_path.read_text(): FileNotFoundError when the key file is missing
get_anthropic_key(keyPresent) ==
    IF keyPresent THEN Ok("key") ELSE Raise("FileNotFoundError")

\* The parts of the prompt that vary: the date range and, per entry, its
\* date and content.  The rest of the prompt is fixed text.
build_prompt(entries) ==
    [start_date |-> entries[1].date,
     end_date |-> entries[Len(entries)].date,
     entries_text |-> [i \in 1..Len(entries) |->
                          [date |-> entries[i].date, content |-> entries[i].content]]]

\* api is what client.messages.create does: a summary text or "APIError"
generate_summary(st, entries, keyPresent, api) ==
    LET key == get_anthropic_key(keyPresent)
    IN  IF key.exc # "" THEN Out(key, st)
        ELSE LET prompt == build_prompt(entries)
                 st1 == Logged(st, "messages.create",
                               [model |-> "summary_model", prompt |-> prompt], api)
             IN  IF api = "APIError" THEN Out(Raise("APIError"), st1)
                 ELSE Out(Ok(api), st1)

save_draft(st, summary, now) ==
    LET filename == IsoName(now, DraftSuffix)
        st1 == [st EXCEPT !.journal = (filename :> summary) @@ @]
    IN  Out(Ok(filename), Logged(st1, "write_text", filename, summary))

-----------------------------------------------------------------------------
(* email_sender.py *)

\* A valid token is returned as it is; an expired one is refreshed and the
\* token file rewritten; with no token and no client secret there are no
\* credentials.  (The interactive browser flow ends like a refresh.)
get_gmail_credentials(st) ==
    IF st.gmailToken = "valid" THEN Out(Ok(TRUE), st)
    ELSE IF st.gmailToken = "expired"
         THEN Out(Ok(TRUE), Logged([st EXCEPT !.gmailToken = "valid"],
                                   "write_text", PlainName(<<"gmail-token.json">>), "token"))
         ELSE Out(Ok(FALSE), Logged(st, "print", "Gmail client secret not found", ""))

\* httpError: the Gmail API raises HttpError on this send
send_email(st, subject, body, httpError) ==
    LET creds == get_gmail_credentials(st)
        msg == [subject |-> subject, body |-> body]
    IN  IF ~creds.val
        THEN Out(Ok(FALSE), Logged(creds.st, "send_email", msg, "no credentials"))
        ELSE IF httpError
             THEN Out(Ok(FALSE), Logged(creds.st, "send_email", msg, "HttpError"))
             ELSE Out(Ok(TRUE), Logged(creds.st, "send_email", msg, "sent"))

send_summary_email(st, summary, date_range, httpError) ==
    send_email(st, <<"Bi-Weekly Summary", date_range>>, summary, httpError)

-----------------------------------------------------------------------------
(* reply_processor.py *)

\* maxResults=10
MaxResults == 10

\* gmailRead is what the Gmail API does: "ok", or HttpError raised by
\* messages.list ("list error") or by a messages.get ("get error")
get_unread_replies(st, gmailRead) ==
    LET creds == get_gmail_credentials(st)
    IN  IF ~creds.val
        THEN Out(Ok(<<>>), Logged(creds.st, "print",
                                  "Failed to get Gmail credentials. Cannot check replies.", ""))
        ELSE IF gmailRead # "ok"
             THEN Out(Ok(<<>>), Logged(creds.st, "print", "Gmail API error", gmailRead))
             ELSE LET n == IF Len(creds.st.inbox) < MaxResults
                           THEN Len(creds.st.inbox) ELSE MaxResults
                  IN  Out(Ok(SubSeq(creds.st.inbox, 1, n)), creds.st)

\* httpError: messages.modify raises HttpError
mark_as_read(st, message_id, httpError) ==
    LET creds == get_gmail_credentials(st)
    IN  IF ~creds.val THEN Out(Ok(FALSE), creds.st)
        ELSE IF httpError
             THEN Out(Ok(FALSE), Logged(creds.st, "print", "Failed to mark message as read", ""))
             ELSE Out(Ok(TRUE),
                      Logged([creds.st EXCEPT !.inbox =
                                 SelectSeq(@, LAMBDA m : m.id # message_id)],
                             "mark_as_read", message_id, ""))

\* A response of the model is a sequence of lines [key, val]: "key: val".
\* re.search(r"CLASSIFICATION:\s*(APPROVE|REVISE|UNCLEAR)"): the first line
\* whose key is CLASSIFICATION and whose value starts with one of the words.
ClassWord(val) ==
    IF val \in {"APPROVE", "APPROVED"} THEN "APPROVE"
    ELSE IF val \in {"REVISE", "REVISED"} THEN "REVISE"
    ELSE IF val = "UNCLEAR" THEN "UNCLEAR"
    ELSE ""

ClassMatches(response) ==
    {i \in 1..Len(response) :
        response[i].key = "CLASSIFICATION" /\ ClassWord(response[i].val) # ""}

\* re.search(r"FEEDBACK:\s*(.+)"): the first FEEDBACK line with text
FeedbackMatches(response) ==
    {i \in 1..Len(response) : response[i].key = "FEEDBACK" /\ response[i].val # ""}

First(S) == CHOOSE i \in S : \A j \in S : i <= j

\* group(1) of the first CLASSIFICATION line, whatever follows the colon
ParseClassification_AnyWord(response) ==
    LET lines == {i \in 1..Len(response) : response[i].key = "CLASSIFICATION"}
    IN  IF lines # {} THEN response[First(lines)].val ELSE "UNCLEAR"

ParseClassification(response) ==
    IF ClassMatches(response) # {}
    THEN ClassWord(response[First(ClassMatches(response))].val)
    ELSE "UNCLEAR"

ParseFeedback(response) ==
    IF FeedbackMatches(response) # {}
    THEN response[First(FeedbackMatches(response))].val
    ELSE ""

\* llm is what client.messages.create does: [api |-> "ok", text |-> response]
\* or [api |-> "APIError"]
classify_reply(st, reply_body, keyPresent, llm) ==
    LET key == get_anthropic_key(keyPresent)
    IN  IF key.exc # "" THEN Out(key, st)
        ELSE LET st1 == Logged(st, "messages.create",
                               [model |-> "classify_model", prompt |-> reply_body], llm.api)
             IN  IF llm.api = "APIError" THEN Out(Raise("APIError"), st1)
                 ELSE Out(Ok([classification |-> ParseClassification(llm.text),
                              feedback |-> ParseFeedback(llm.text)]), st1)

\* pending-feedback.json as a file: whether it exists and the list in it
NoFile == [exists |-> FALSE, items |-> <<>>]

\* save_feedback that writes the new item alone
save_feedback_Overwrite(st, feedback) ==
    LET items == <<[feedback |-> feedback]>>
        st1 == [st EXCEPT !.pending = [exists |-> TRUE, items |-> items]]
    IN  Out(Ok(TRUE), Logged(st1, "write_text", PlainName(<<"pending-feedback.json">>), items))

\* The timestamp of an item is left out
save_feedback(st, feedback) ==
    LET existing == IF st.pending.exists THEN st.pending.items ELSE <<>>
        items == Append(existing, [feedback |-> feedback])
        st1 == [st EXCEPT !.pending = [exists |-> TRUE, items |-> items]]
    IN  Out(Ok(TRUE), Logged(st1, "write_text", PlainName(<<"pending-feedback.json">>), items))

\* The names that journal.py binds at module level, which are the names
\* "from .journal import ..." can import
JournalModuleNames ==
    {"re", "date", "timedelta", "Path", "get_journal_path", "parse_date_from_filename",
     "find_latest_summary", "needs_summary", "gather_entries"}

\* glob("*-SUMMARY-*-DRAFT.md")
DraftGlob(name) ==
    LET s == name.suffix
    IN  /\ Len(s) >= 3
        /\ s[Len(s)] = ".md"
        /\ s[Len(s) - 1] = "-DRAFT"
        /\ \E i \in 1..(Len(s) - 2) : s[i] \in {"-SUMMARY-14-days", "-SUMMARY-7-days"}

\* draft_path.stem.replace("-DRAFT", "") + ".md"
WithoutDraft(name) ==
    [name EXCEPT !.suffix = SelectSeq(@, LAMBDA t : t # "-DRAFT")]

finalize_draft(st) ==
    IF "get_summaries_path" \notin JournalModuleNames
    THEN Out(Raise("ImportError"), st)
    ELSE LET drafts == {f \in st.summaries : DraftGlob(f.name)}
         IN  IF drafts = {}
             THEN Out(Ok(FALSE), Logged(st, "print", "No draft files found to finalize.", ""))
             ELSE LET draft == CHOOSE f \in drafts : \A g \in drafts : g.mtime <= f.mtime
                      final == [draft EXCEPT !.name = WithoutDraft(draft.name)]
                      others == {f \in st.summaries : f.name \notin {draft.name, final.name}}
                      st1 == [st EXCEPT !.summaries = others \cup {final}]
                  IN  Out(Ok(TRUE), Logged(st1, "rename", draft.name, final.name))

ConfirmationSubject(classification) ==
    IF classification = "APPROVE" THEN "Summary Approved"
    ELSE IF classification = "REVISE" THEN "Feedback Received"
    ELSE "Clarification Needed"

send_confirmation_email(st, classification, feedback, httpError) ==
    send_email(st, <<ConfirmationSubject(classification)>>,
               IF classification = "REVISE" THEN feedback ELSE "", httpError)

\* One pass of the loop of process_replies: classify, act, confirm, mark.
\* o is what the outside does for this reply: [llm, sendError, markError].
ProcessReply(st, reply, keyPresent, o) ==
    LET c == classify_reply(st, reply.body, keyPresent, o.llm)
    IN  IF c.exc # "" THEN c
        ELSE LET classification == c.val.classification
                 feedback == c.val.feedback
                 st0 == Logged(c.st, "print", "Classification", classification)
                 st1 == IF feedback # "" THEN Logged(st0, "print", "Feedback", feedback)
                        ELSE st0
                 acted == IF classification = "APPROVE" THEN finalize_draft(st1)
                          ELSE IF classification = "REVISE" THEN save_feedback(st1, feedback)
                          ELSE Out(Ok(TRUE), st1)
             IN  IF acted.exc # "" THEN acted
                 ELSE LET sent == send_confirmation_email(acted.st, classification,
                                                          feedback, o.sendError)
                      IN  mark_as_read(sent.st, reply.id, o.markError)

-----------------------------------------------------------------------------
(* config.py *)

\* A Python value of a configuration: a dict (items: key -> value), an int,
\* a one-element list [leaf], or None
DictValue(items) == [kind |-> "dict", leaf |-> 0, items |-> items]
IntValue(n) == [kind |-> "int", leaf |-> n, items |-> <<>>]
ListValue(n) == [kind |-> "list", leaf |-> n, items |-> <<>>]
NoneValue == [kind |-> "None", leaf |-> 0, items |-> <<>>]

\* isinstance(value, dict)
IsDict(value) == value.kind = "dict"

\* bool(value)
Truthy(value) ==
    IF value.kind = "dict" THEN DOMAIN value.items # {}
    ELSE IF value.kind = "int" THEN value.leaf # 0
    ELSE value.kind = "list"

\* The sections journal and anthropic with their integer settings
DEFAULT_CONFIG ==
    [section \in {"journal", "anthropic"} |->
        IF section = "journal"
        THEN DictValue([key \in {"lookback_days"} |-> IntValue(14)])
        ELSE DictValue([key \in {"max_tokens"} |-> IntValue(4096)])]

RECURSIVE _deep_copy(_)
_deep_copy(d) ==
    [key \in DOMAIN d |->
        IF IsDict(d[key]) THEN DictValue(_deep_copy(d[key].items)) ELSE d[key]]

\* result[key] = value
SetItem(result, key, value) == (key :> value) @@ result

\* _deep_merge with "result[key] = value" for every key: dict.update
RECURSIVE MergeLoop_Update(_, _, _)
MergeLoop_Update(result, overlay, keys) ==
    IF keys = {} THEN result
    ELSE LET key == CHOOSE k \in keys : TRUE
         IN  MergeLoop_Update(SetItem(result, key, overlay[key]), overlay, keys \ {key})

\* The loop of _deep_merge over the keys of overlay not yet visited
RECURSIVE MergeLoop(_, _, _)
MergeLoop(result, overlay, keys) ==
    IF keys = {} THEN result
    ELSE LET key == CHOOSE k \in keys : TRUE
             value == overlay[key]
             merged ==
                 IF key \in DOMAIN result /\ IsDict(result[key]) /\ IsDict(value)
                 THEN DictValue(MergeLoop(_deep_copy(result[key].items), value.items,
                                          DOMAIN value.items))
                 ELSE value
         IN  MergeLoop(SetItem(result, key, merged), overlay, keys \ {key})

_deep_merge(base_dict, overlay) == MergeLoop(_deep_copy(base_dict), overlay, DOMAIN overlay)

\* config.yaml as yaml.safe_load finds it: missing, not YAML, or a document
NoConfigFile == [exists |-> FALSE, parse |-> "", doc |-> NoneValue]
BadYaml == [exists |-> TRUE, parse |-> "YAMLError", doc |-> NoneValue]
YamlDocument(value) == [exists |-> TRUE, parse |-> "ok", doc |-> value]

\* "overlay.items()" on a value that is no dict raises AttributeError
load_config(file) ==
    LET config == _deep_copy(DEFAULT_CONFIG)
    IN  IF ~file.exists THEN Ok(config)
        ELSE IF file.parse = "YAMLError" THEN Ok(config)
        ELSE LET user_config == file.doc
             IN  IF ~Truthy(user_config) THEN Ok(config)
                 ELSE IF ~IsDict(user_config) THEN Raise("AttributeError")
                 ELSE Ok(_deep_merge(config, user_config.items))

-----------------------------------------------------------------------------
(* main.py *)

\* --days, default=14
DefaultDays == 14

\* A call that was not made
NotCalled == [exc |-> "not called", val |-> <<>>]

\* How main() ended: the place, the value returned or the exception that
\* left it, what the recency check and gather_entries gave, the state left
Ended(at, code, exc, needs, entries, st) ==
    [at |-> at, returned |-> exc = "", code |-> code, exc |-> exc,
     needs |-> needs, entries |-> entries, st |-> st]

\* The effects of reading the gathered entries: file.read_text()
RECURSIVE LoggedReads(_, _, _)
LoggedReads(st, entries, i) ==
    IF i > Len(entries) THEN st
    ELSE LoggedReads(Logged(st, "read_text", entries[i].filename, ""), entries, i + 1)

\* MainEmail with a failed email failing the run
MainEmail_FailureExitsOne(st, args, needs, entries, summary, sendError) ==
    IF args.no_email
    THEN Ended("done", 0, "", needs, entries,
               Logged(st, "print", "[--no-email] Skipping email notification.", ""))
    ELSE LET date_range == <<entries[1].date, entries[Len(entries)].date>>
             sent == send_summary_email(st, summary, date_range, sendError)
         IN  IF sent.val
             THEN Ended("done", 0, "", needs, entries,
                        Logged(sent.st, "print", "Email sent!", ""))
             ELSE Ended("done", 1, "", needs, entries,
                        Logged(sent.st, "print", "Error: Email failed to send.", ""))

\* The last lines of main(): the email, unless --no-email
MainEmail(st, args, needs, entries, summary, sendError) ==
    IF args.no_email
    THEN Ended("done", 0, "", needs, entries,
               Logged(st, "print", "[--no-email] Skipping email notification.", ""))
    ELSE LET date_range == <<entries[1].date, entries[Len(entries)].date>>
             sent == send_summary_email(st, summary, date_range, sendError)
         IN  IF sent.val
             THEN Ended("done", 0, "", needs, entries,
                        Logged(sent.st, "print", "Email sent!", ""))
             ELSE Ended("done", 0, "", needs, entries,
                        Logged(sent.st, "print",
                               "Warning: Email failed to send, but draft was saved locally.", ""))

\* MainGenerate catching only FileNotFoundError: after any other error it
\* goes on with an empty summary
MainGenerate_OnlyKeyErrorCaught(st, now, keyPresent, args, o, needs, entries) ==
    LET summary == generate_summary(st, entries, keyPresent, o.api)
    IN  IF summary.exc = "FileNotFoundError"
        THEN Ended("no api key", 1, "", needs, entries,
                   Logged(summary.st, "print", "Error: API key not found", ""))
        ELSE LET text == IF summary.exc # "" THEN "" ELSE summary.val
                 draft == save_draft(summary.st, text, now)
             IN  MainEmail(draft.st, args, needs, entries, text, o.sendError)

\* main() from "Generate the summary via Claude API" on
MainGenerate(st, now, keyPresent, args, o, needs, entries) ==
    LET summary == generate_summary(st, entries, keyPresent, o.api)
    IN  IF summary.exc = "FileNotFoundError"
        THEN Ended("no api key", 1, "", needs, entries,
                   Logged(summary.st, "print", "Error: API key not found", ""))
        ELSE IF summary.exc # ""
        THEN Ended("api error", 1, "", needs, entries,
                   Logged(summary.st, "print", "Error calling Claude API", summary.exc))
        ELSE LET draft == save_draft(summary.st, summary.val, now)
             IN  MainEmail(draft.st, args, needs, entries, summary.val, o.sendError)

\* MainGather without the --dry-run exit
MainGather_NoDryRun(st, now, keyPresent, args, o, needs) ==
    LET gathered == gather_entries(st.journal, now, args.days)
    IN  IF gathered.exc # ""
        THEN Ended("gather_entries", -1, gathered.exc, needs, <<>>, st)
        ELSE LET entries == gathered.val
                 st1 == LoggedReads(st, entries, 1)
             IN  IF entries = <<>>
                 THEN Ended("no entries", 1, "", needs, entries,
                            Logged(st1, "print",
                                   "No journal entries found in the specified period.", ""))
                 ELSE MainGenerate(st1, now, keyPresent, args, o, needs, entries)

\* MainGather returning 0 when there are no entries
MainGather_NoEntriesOk(st, now, keyPresent, args, o, needs) ==
    LET gathered == gather_entries(st.journal, now, args.days)
    IN  IF gathered.exc # ""
        THEN Ended("gather_entries", -1, gathered.exc, needs, <<>>, st)
        ELSE LET entries == gathered.val
                 st1 == LoggedReads(st, entries, 1)
             IN  IF entries = <<>>
                 THEN Ended("no entries", 0, "", needs, entries,
                            Logged(st1, "print",
                                   "No journal entries found in the specified period.", ""))
                 ELSE IF args.dry_run
                 THEN Ended("dry run", 0, "", needs, entries,
                            Logged(st1, "print", "[Dry run] No API call made, no files written.", ""))
                 ELSE MainGenerate(st1, now, keyPresent, args, o, needs, entries)

\* main() from "Gather entries from the lookback period" on
MainGather(st, now, keyPresent, args, o, needs) ==
    LET gathered == gather_entries(st.journal, now, args.days)
    IN  IF gathered.exc # ""
        THEN Ended("gather_entries", -1, gathered.exc, needs, <<>>, st)
        ELSE LET entries == gathered.val
                 st1 == LoggedReads(st, entries, 1)
             IN  IF entries = <<>>
                 THEN Ended("no entries", 1, "", needs, entries,
                            Logged(st1, "print",
                                   "No journal entries found in the specified period.", ""))
                 ELSE IF args.dry_run
                 THEN Ended("dry run", 0, "", needs, entries,
                            Logged(st1, "print", "[Dry run] No API call made, no files written.", ""))
                 ELSE MainGenerate(st1, now, keyPresent, args, o, needs, entries)

\* MainSummary with the recency check made whether or not --force is set
MainSummary_ForceIgnored(st, now, keyPresent, args, o) ==
    LET needs == needs_summary(st.journal, now, args.days)
    IN  IF needs.exc # ""
        THEN Ended("needs_summary", -1, needs.exc, needs, <<>>, st)
        ELSE IF ~needs.val
        THEN Ended("recent", 0, "", needs, <<>>,
                   Logged(st, "print", "A summary was generated within the last days. Skipping.", ""))
        ELSE MainGather(st, now, keyPresent, args, o, needs)

\* main() without --check-replies, from "journal_path = get_journal_path()" on.
\* o is what the outside does during the run: [api, sendError]
MainSummary(st, now, keyPresent, args, o) ==
    LET needs == IF args.force THEN NotCalled
                 ELSE needs_summary(st.journal, now, args.days)
    IN  IF ~args.force /\ needs.exc # ""
        THEN Ended("needs_summary", -1, needs.exc, needs, <<>>, st)
        ELSE IF ~args.force /\ ~needs.val
        THEN Ended("recent", 0, "", needs, <<>>,
                   Logged(st, "print", "A summary was generated within the last days. Skipping.", ""))
        ELSE MainGather(st, now, keyPresent, args, o, needs)

\* main() with --check-replies, up to the loop of process_replies:
\* the replies to work on, or the end of main() when there are none
MainCheckReplies(st, gmailRead) ==
    LET st0 == Logged(st, "print", "Running in reply-processing mode...", "")
        replies == get_unread_replies(st0, gmailRead)
    IN  IF replies.val = <<>>
        THEN [replies |-> <<>>,
              end |-> Ended("check replies", IF 0 >= 0 THEN 0 ELSE 1, "", NotCalled, <<>>,
                            Logged(replies.st, "print", "No unread replies found.", ""))]
        ELSE [replies |-> replies.val,
              end |-> Ended("in loop", -1, "", NotCalled, <<>>, replies.st)]

\* The end of process_replies and of main() after the last reply
MainRepliesDone(st, processed) ==
    Ended("check replies", IF processed >= 0 THEN 0 ELSE 1, "", NotCalled, <<>>,
          Logged(st, "print", "Processed reply(s).", processed))

-----------------------------------------------------------------------------
(* What the model draws its inputs from *)

Jan31 == Date(1, 31)
Feb1 == Date(2, 1)
Feb2 == Date(2, 2)

\* --days of a summary run, and lookback_days of a direct call
MainDays == 1..MaxLookback
DaysChoices == (0..MaxLookback) \cup {DefaultDays}

\* Command lines of a summary run: every combination of the flags
SummaryArgs ==
    {[check_replies |-> FALSE, dry_run |-> d, force |-> f, no_email |-> n, days |-> k] :
        d \in BOOLEAN, f \in BOOLEAN, n \in BOOLEAN, k \in MainDays}

\* --check-replies, alone and with every other flag
CheckRepliesArgs ==
    {[check_replies |-> TRUE, dry_run |-> b, force |-> b, no_email |-> b,
      days |-> DefaultDays] : b \in BOOLEAN}

Line(k, v) == [key |-> k, val |-> v]

Responses ==
    {<<Line("CLASSIFICATION", "APPROVE"), Line("FEEDBACK", "")>>,
     <<Line("CLASSIFICATION", "REVISE"), Line("FEEDBACK", "more on project X")>>,
     <<Line("CLASSIFICATION", "UNCLEAR"), Line("FEEDBACK", "")>>,
     <<Line("", "I cannot classify this reply.")>>}

ReplyOutcomes ==
    {[llm |-> [api |-> "ok", text |-> t], sendError |-> s, markError |-> m] :
        t \in Responses, s \in BOOLEAN, m \in BOOLEAN}
    \cup {[llm |-> [api |-> "APIError", text |-> <<>>], sendError |-> FALSE, markError |-> FALSE]}

SummaryOutcomes ==
    {[api |-> a, sendError |-> e] : a \in {"summary text", "APIError"}, e \in BOOLEAN}

\* The sets of at most k of the names
RECURSIVE SetsUpTo(_, _)
SetsUpTo(names, k) ==
    IF k = 0 THEN {{}}
    ELSE LET smaller == SetsUpTo(names, k - 1)
         IN  smaller \cup {S \cup {n} : S \in smaller, n \in names}

\* Directories of at most MaxFiles files, each with the text its user wrote
Directories(names) == {[n \in S |-> "text"] : S \in SetsUpTo(names, MaxFiles)}

MainNames ==
    {DatedName(1, 30, EntrySuffix), DatedName(2, 1, EntrySuffix),
     DatedName(2, 30, EntrySuffix), DatedName(1, 31, SummarySuffix)}

JournalDates == {<<1, 30>>, <<1, 31>>, <<2, 1>>, <<2, 2>>, <<2, 3>>, <<2, 30>>, <<13, 1>>}

JournalSuffixes ==
    {EntrySuffix, SummarySuffix, DraftSuffix, <<"-SUMMARY-14-days", "-v2", ".md">>,
     <<"-SUMMARY-14-days", ".txt">>, <<"-notes", ".md">>}

JournalNames ==
    {DatedName(d[1], d[2], s) : d \in JournalDates, s \in JournalSuffixes}
    \cup {PlainName(<<"README", ".md">>)}

NoRun == [args |-> <<>>]
NoPre == <<>>
NoCall == [fn |-> ""]

-----------------------------------------------------------------------------
(* The processes *)

Start(dirs, days, tokens, keys) ==
    /\ today \in days
    /\ journal \in dirs
    /\ summaries = {[name |-> IsoName(Jan31, DraftSuffix), mtime |-> 1]}
    /\ pending = NoFile
    /\ inbox = <<>>
    /\ gmailToken \in tokens
    /\ apiKey \in keys
    /\ pc = "idle"
    /\ runs = 0
    /\ run = NoRun
    /\ pre = NoPre
    /\ call = NoCall
    /\ configYaml = NoConfigFile
    /\ base = <<>>
    /\ entriesDir = <<>>
    /\ stagingDir = <<>>

Init == Start(Directories(MainNames), {Feb1}, {"valid", "expired", "absent"}, BOOLEAN)

Files == [journal |-> journal, summaries |-> summaries, pending |-> pending,
          inbox |-> inbox, gmailToken |-> gmailToken]

\* The variables after a step of main() that ended as e
Leaves(args, e, replies, i, processed) ==
    /\ journal' = e.st.journal
    /\ summaries' = e.st.summaries
    /\ pending' = e.st.pending
    /\ inbox' = e.st.inbox
    /\ gmailToken' = e.st.gmailToken
    /\ run' = [args |-> args, at |-> e.at, returned |-> e.returned /\ e.at # "in loop",
               code |-> e.code, exc |-> e.exc, needs |-> e.needs, entries |-> e.entries,
               log |-> e.st.log, replies |-> replies, i |-> i, processed |-> processed]
    /\ pc' = IF e.at = "in loop" THEN "replies" ELSE "exited"

\* python -m summarizer <flags>: a summary run of main(), start to end
RunSummary ==
    /\ pc = "idle"
    /\ runs < MaxRuns
    /\ \E args \in SummaryArgs, o \in SummaryOutcomes :
          Leaves(args, MainSummary(Files @@ [log |-> <<>>], today, apiKey, args, o), <<>>, 0, 0)
    /\ pre' = Files
    /\ runs' = runs + 1
    /\ UNCHANGED <<today, apiKey, call>>
    /\ UNCHANGED <<configVars, heartbeatVars>>

\* python -m summarizer --check-replies: main() up to the loop over the replies
RunCheckReplies ==
    /\ pc = "idle"
    /\ runs < MaxRuns
    /\ \E args \in CheckRepliesArgs, gmailRead \in {"ok", "list error", "get error"} :
          LET m == MainCheckReplies(Files @@ [log |-> <<>>], gmailRead)
          IN  Leaves(args, m.end, m.replies, 1, 0)
    /\ pre' = Files
    /\ runs' = runs + 1
    /\ UNCHANGED <<today, apiKey, call>>
    /\ UNCHANGED <<configVars, heartbeatVars>>

\* One pass of the loop of process_replies, and the end of main() after the last
ProcessNextReply ==
    /\ pc = "replies"
    /\ \E o \in ReplyOutcomes :
          LET r == ProcessReply(Files @@ [log |-> run.log], run.replies[run.i], apiKey, o)
          IN  IF r.exc # ""
              THEN Leaves(run.args, Ended("process_replies", -1, r.exc, NotCalled, <<>>, r.st),
                          run.replies, run.i, run.processed)
              ELSE IF run.i = Len(run.replies)
              THEN Leaves(run.args, MainRepliesDone(r.st, run.processed + 1),
                          run.replies, run.i + 1, run.processed + 1)
              ELSE Leaves(run.args, Ended("in loop", -1, "", NotCalled, <<>>, r.st),
                          run.replies, run.i + 1, run.processed + 1)
    /\ UNCHANGED <<today, apiKey, runs, pre, call>>
    /\ UNCHANGED <<configVars, heartbeatVars>>

\* The process is gone; the files stay
Exit ==
    /\ pc = "exited"
    /\ pc' = "idle"
    /\ run' = NoRun
    /\ pre' = NoPre
    /\ UNCHANGED <<today, journal, summaries, pending, inbox, gmailToken, apiKey, runs, call>>
    /\ UNCHANGED <<configVars, heartbeatVars>>

\* The user answers a summary email
ReplyArrives ==
    /\ pc = "idle"
    /\ Len(inbox) < MaxReplies
    /\ inbox' = Append(inbox, [id |-> Len(inbox) + 1, body |-> "reply"])
    /\ UNCHANGED <<today, journal, summaries, pending, gmailToken, apiKey, pc, runs, run, pre, call>>
    /\ UNCHANGED <<configVars, heartbeatVars>>

Next == RunSummary \/ RunCheckReplies \/ ProcessNextReply \/ Exit \/ ReplyArrives

Spec == Init /\ [][Next]_vars

-----------------------------------------------------------------------------
(* journal.py called directly, over richer directories *)

InitJournal == Start(Directories(JournalNames), {Feb1, Feb2}, {"valid"}, {TRUE})

CallFindLatestSummary ==
    /\ call = NoCall
    /\ call' = [fn |-> "find_latest_summary", days |-> 0,
                result |-> find_latest_summary(journal)]
    /\ UNCHANGED <<today, journal, summaries, pending, inbox, gmailToken, apiKey,
                   pc, runs, run, pre>>
    /\ UNCHANGED <<configVars, heartbeatVars>>

CallNeedsSummary ==
    /\ call = NoCall
    /\ \E k \in DaysChoices :
          call' = [fn |-> "needs_summary", days |-> k,
                   result |-> needs_summary(journal, today, k)]
    /\ UNCHANGED <<today, journal, summaries, pending, inbox, gmailToken, apiKey,
                   pc, runs, run, pre>>
    /\ UNCHANGED <<configVars, heartbeatVars>>

CallGatherEntries ==
    /\ call = NoCall
    /\ \E k \in DaysChoices :
          call' = [fn |-> "gather_entries", days |-> k,
                   result |-> gather_entries(journal, today, k)]
    /\ UNCHANGED <<today, journal, summaries, pending, inbox, gmailToken, apiKey,
                   pc, runs, run, pre>>
    /\ UNCHANGED <<configVars, heartbeatVars>>

CallParseDate ==
    /\ call = NoCall
    /\ \E name \in JournalNames :
          call' = [fn |-> "parse_date_from_filename", name |-> name,
                   result |-> parse_date_from_filename(name)]
    /\ UNCHANGED <<today, journal, summaries, pending, inbox, gmailToken, apiKey,
                   pc, runs, run, pre>>
    /\ UNCHANGED <<configVars, heartbeatVars>>

NextJournal ==
    CallFindLatestSummary \/ CallNeedsSummary \/ CallGatherEntries \/ CallParseDate

SpecJournal == InitJournal /\ [][NextJournal]_vars

-----------------------------------------------------------------------------
(* heartbeat.py *)
(* The process state here is [entriesDir, stagingDir, gmailToken, log]:    *)
(* config.get_entries_path() and config.get_staging_path() as file name -> *)
(* content.  A directory that does not exist reads like an empty one, and  *)
(* auto_wrapup creates the entries directory before it writes.             *)

CheckpointSuffix == <<"-checkpoints", ".md">>

\* ^(\d{4})-(\d{2})-(\d{2})-checkpoints\.md$
CheckpointPattern(name) == name.dated /\ name.suffix = CheckpointSuffix

\* "str | None": the text of a file, or None
NoText == [isNone |-> TRUE, text |-> ""]
Text(s) == [isNone |-> FALSE, text |-> s]

\* bool(content) of a "str | None"
HasText(content) == ~content.isNone /\ content.text # ""

get_yesterday(now) == MinusDays(now, 1)

\* The loop of check_stale_staging over the files not yet visited
RECURSIVE StaleLoop(_, _, _)
StaleLoop(files, now, stale_dates) ==
    IF files = {} THEN Ok(stale_dates)
    ELSE LET file == CHOOSE f \in files : TRUE
             rest == files \ {file}
         IN  IF CheckpointPattern(file)
             THEN LET file_date == MakeDate(file)
                  IN  IF file_date.exc # "" THEN file_date
                      ELSE IF DateGT(now, file_date.val)
                           THEN StaleLoop(rest, now, Append(stale_dates, file_date.val))
                           ELSE StaleLoop(rest, now, stale_dates)
             ELSE StaleLoop(rest, now, stale_dates)

\* sorted(dates)
RECURSIVE sorted(_)
sorted(dates) ==
    IF dates = <<>> THEN <<>>
    ELSE LET m == CHOOSE i \in 1..Len(dates) :
                      \A j \in 1..Len(dates) : ~DateGT(dates[i], dates[j])
         IN  <<dates[m]>> \o sorted(SubSeq(dates, 1, m - 1) \o SubSeq(dates, m + 1, Len(dates)))

check_stale_staging(st, now) ==
    LET stale_dates == StaleLoop(DOMAIN st.stagingDir, now, <<>>)
    IN  IF stale_dates.exc # "" THEN stale_dates ELSE Ok(sorted(stale_dates.val))

read_checkpoint_file(st, checkpoint_date) ==
    LET filename == IsoName(checkpoint_date, CheckpointSuffix)
    IN  IF filename \in DOMAIN st.stagingDir THEN Text(st.stagingDir[filename]) ELSE NoText

read_journal_entry(st, entry_date) ==
    LET filename == IsoName(entry_date, EntrySuffix)
    IN  IF filename \in DOMAIN st.entriesDir THEN Text(st.entriesDir[filename]) ELSE NoText

\* api is what client.messages.create does: the text of an entry or "APIError"
synthesize_journal_from_checkpoints(st, checkpoint_content, target_date, keyPresent, api) ==
    LET key == get_anthropic_key(keyPresent)
    IN  IF key.exc # "" THEN Out(key, st)
        ELSE LET st1 == Logged(st, "messages.create",
                               [model |-> "summary_model",
                                prompt |-> [date |-> target_date,
                                            notes |-> checkpoint_content]], api)
             IN  IF api = "APIError" THEN Out(Raise("APIError"), st1)
                 ELSE Out(Ok(api), st1)

\* checkpoint_file.unlink()
Unlink(st, target_date) ==
    LET filename == IsoName(target_date, CheckpointSuffix)
    IN  Logged([st EXCEPT !.stagingDir =
                   [f \in DOMAIN st.stagingDir \ {filename} |-> st.stagingDir[f]]],
               "unlink", filename, "")

auto_wrapup(st, target_date, keyPresent, api) ==
    LET checkpoint_content == read_checkpoint_file(st, target_date)
    IN  IF ~HasText(checkpoint_content) THEN Out(Ok(FALSE), st)
        ELSE LET existing_journal == read_journal_entry(st, target_date)
             IN  IF HasText(existing_journal)
                 THEN Out(Ok(TRUE), Unlink(st, target_date))
                 ELSE LET journal_content ==
                              synthesize_journal_from_checkpoints(
                                  st, checkpoint_content.text, target_date, keyPresent, api)
                      IN  IF journal_content.exc # "" THEN journal_content
                          ELSE LET journal_file == IsoName(target_date, EntrySuffix)
                                   st1 == [journal_content.st EXCEPT !.entriesDir =
                                              (journal_file :> journal_content.val) @@ @]
                                   st2 == Logged(st1, "write_text", journal_file,
                                                 journal_content.val)
                               IN  Out(Ok(TRUE), Unlink(st2, target_date))

\* headlines: fetch_all_headlines() found any; api: what messages.create does
synthesize_news_vibe(st, headlines, keyPresent, api) ==
    IF ~headlines THEN Out(Ok("News feeds unavailable today"), st)
    ELSE LET key == get_anthropic_key(keyPresent)
         IN  IF key.exc # "" THEN Out(key, st)
             ELSE LET st1 == Logged(st, "messages.create",
                                    [model |-> "summary_model", prompt |-> "headlines"], api)
                  IN  IF api = "APIError" THEN Out(Raise("APIError"), st1)
                      ELSE Out(Ok(api), st1)

build_heartbeat_email(now, yesterday, journal_content, auto_wrapup_ran, news_vibe) ==
    [subject |-> <<"Daily Heartbeat", now>>,
     body |-> [yesterday |-> yesterday, journal |-> journal_content,
               auto_wrapup_ran |-> auto_wrapup_ran, news_vibe |-> news_vibe]]

send_heartbeat_email(st, subject, body, httpError) == send_email(st, subject, body, httpError)

\* The loop of run_heartbeat over the stale dates from the i-th on
RECURSIVE WrapupLoop(_, _, _, _, _, _, _)
WrapupLoop(st, stale_dates, i, yesterday, keyPresent, api, auto_wrapup_ran) ==
    IF i > Len(stale_dates) THEN Out(Ok(auto_wrapup_ran), st)
    ELSE LET stale_date == stale_dates[i]
             w == auto_wrapup(st, stale_date, keyPresent, api)
         IN  IF w.exc # "" THEN w
             ELSE WrapupLoop(w.st, stale_dates, i + 1, yesterday, keyPresent, api,
                             auto_wrapup_ran \/ (w.val /\ stale_date = yesterday))

\* Steps 2 to 4 of run_heartbeat: read the entry, the news, the email
HeartbeatEmail(st, now, keyPresent, o, auto_wrapup_ran) ==
    LET yesterday == get_yesterday(now)
        journal_content == read_journal_entry(st, yesterday)
        vibe == synthesize_news_vibe(st, o.headlines, keyPresent, o.newsApi)
        news == IF vibe.exc # ""
                THEN Out(Ok("News unavailable today - feeds may be down"),
                         Logged(vibe.st, "print", "Error fetching/synthesizing news", vibe.exc))
                ELSE vibe
        email == build_heartbeat_email(now, yesterday, journal_content, auto_wrapup_ran,
                                       news.val)
        sent == send_heartbeat_email(news.st, email.subject, email.body, o.sendError)
    IN  Out(Ok(IF sent.val THEN 0 ELSE 1), sent.st)

\* o is what the outside does in this run: [wrapApi, headlines, newsApi, sendError]
run_heartbeat(st, now, keyPresent, o) ==
    LET stale_dates == check_stale_staging(st, now)
    IN  IF stale_dates.exc # "" THEN Out(stale_dates, st)
        ELSE LET wrapped == WrapupLoop(st, stale_dates.val, 1, get_yesterday(now),
                                       keyPresent, o.wrapApi, FALSE)
             IN  IF wrapped.exc # "" THEN wrapped
                 ELSE HeartbeatEmail(wrapped.st, now, keyPresent, o, wrapped.val)

-----------------------------------------------------------------------------
(* config.py called directly *)

\* The integer settings a file or a caller may give
MaxValues == 2

ConfigKeys == {"journal", "lookback_days"}

\* The dicts over ConfigKeys whose values are drawn from values
DictsOf(values) == UNION {[keys -> values] : keys \in SUBSET ConfigKeys}

Settings == {IntValue(n) : n \in 1..MaxValues}

\* Dicts of settings, and dicts of settings and of such dicts
FlatDicts == DictsOf(Settings)
NestedDicts == DictsOf(Settings \cup {DictValue(d) : d \in FlatDicts})

YamlFiles ==
    {NoConfigFile, BadYaml}
    \cup {YamlDocument(v) : v \in {NoneValue, IntValue(0), IntValue(1), ListValue(1)}}
    \cup {YamlDocument(DictValue(d)) : d \in NestedDicts}

InitConfig ==
    /\ today = Feb1
    /\ journal = <<>>
    /\ summaries = {}
    /\ pending = NoFile
    /\ inbox = <<>>
    /\ gmailToken = "valid"
    /\ apiKey = TRUE
    /\ pc = "idle"
    /\ runs = 0
    /\ run = NoRun
    /\ pre = NoPre
    /\ call = NoCall
    /\ configYaml \in YamlFiles
    /\ base \in NestedDicts
    /\ entriesDir = <<>>
    /\ stagingDir = <<>>

mainVars == <<today, journal, summaries, pending, inbox, gmailToken, apiKey,
              pc, runs, run, pre>>

\* _deep_merge(base, overlay), the overlay being the mapping of the file
CallDeepMerge ==
    /\ call = NoCall
    /\ configYaml.exists /\ configYaml.parse = "ok" /\ IsDict(configYaml.doc)
    /\ call' = [fn |-> "_deep_merge", result |-> Ok(_deep_merge(base, configYaml.doc.items))]
    /\ UNCHANGED <<mainVars, configVars, heartbeatVars>>

CallLoadConfig ==
    /\ call = NoCall
    /\ call' = [fn |-> "load_config", result |-> load_config(configYaml)]
    /\ UNCHANGED <<mainVars, configVars, heartbeatVars>>

NextConfig == CallDeepMerge \/ CallLoadConfig

SpecConfig == InitConfig /\ [][NextConfig]_vars

-----------------------------------------------------------------------------
(* classify_reply called directly, over the texts the model may answer *)

\* The lines of a response of the model
MaxLines == 2

ResponseLines ==
    {Line(k, v) : k \in {"CLASSIFICATION", "classification", "FEEDBACK"},
                  v \in {"APPROVE", "APPROVED", "[APPROVE]", "REVISE", "UNCLEAR",
                         "more on project X", ""}}

ResponseTexts == UNION {[1..n -> ResponseLines] : n \in 0..MaxLines}

InitClassify ==
    /\ today = Feb1
    /\ journal = <<>>
    /\ summaries = {}
    /\ pending = NoFile
    /\ inbox = <<[id |-> 1, body |-> "reply"]>>
    /\ gmailToken = "valid"
    /\ apiKey \in BOOLEAN
    /\ pc = "idle"
    /\ runs = 0
    /\ run = NoRun
    /\ pre = NoPre
    /\ call = NoCall
    /\ configYaml = NoConfigFile
    /\ base = <<>>
    /\ entriesDir = <<>>
    /\ stagingDir = <<>>

CallClassifyReply ==
    /\ call = NoCall
    /\ \E llm \in {[api |-> "ok", text |-> r] : r \in ResponseTexts}
                  \cup {[api |-> "APIError", text |-> <<>>]} :
          call' = [fn |-> "classify_reply", llm |-> llm,
                   result |-> classify_reply(Files @@ [log |-> <<>>], inbox[1].body,
                                             apiKey, llm)]
    /\ UNCHANGED <<mainVars, configVars, heartbeatVars>>

NextClassify == CallClassifyReply

SpecClassify == InitClassify /\ [][NextClassify]_vars

-----------------------------------------------------------------------------
(* heartbeat.py: auto_wrapup called directly, and runs of run_heartbeat *)

\* Directories of at most MaxFiles files with the given contents
DirectoriesWith(names, contents) ==
    UNION {[S -> contents] : S \in SetsUpTo(names, MaxFiles)}

Jan30 == Date(1, 30)

\* Checkpoints of the last two days, of today, and one whose digits are no date
StagingNames ==
    {IsoName(d, CheckpointSuffix) : d \in {Jan30, Jan31, Feb1}}
    \cup {DatedName(2, 30, CheckpointSuffix)}

EntryNames == {IsoName(d, EntrySuffix) : d \in {Jan30, Jan31}}

HeartbeatOutcomes ==
    [wrapApi : {"entry text", "APIError"}, headlines : BOOLEAN,
     newsApi : {"vibe", "APIError"}, sendError : BOOLEAN]

InitHeartbeat ==
    /\ today = Feb1
    /\ journal = <<>>
    /\ summaries = {}
    /\ pending = NoFile
    /\ inbox = <<>>
    /\ gmailToken \in {"valid", "expired", "absent"}
    /\ apiKey \in BOOLEAN
    /\ pc = "idle"
    /\ runs = 0
    /\ run = NoRun
    /\ pre = NoPre
    /\ call = NoCall
    /\ configYaml = NoConfigFile
    /\ base = <<>>
    /\ entriesDir \in DirectoriesWith(EntryNames, {"", "entry"})
    /\ stagingDir \in DirectoriesWith(StagingNames, {"", "notes"})

HeartbeatFiles == [entriesDir |-> entriesDir, stagingDir |-> stagingDir,
                   gmailToken |-> gmailToken]

\* The variables after a call that ended as r, and the record of the call
Called(fn, target_date, r) ==
    /\ entriesDir' = r.st.entriesDir
    /\ stagingDir' = r.st.stagingDir
    /\ gmailToken' = r.st.gmailToken
    /\ call' = [fn |-> fn, date |-> target_date, result |-> [exc |-> r.exc, val |-> r.val],
                log |-> r.st.log, before |-> HeartbeatFiles]
    /\ UNCHANGED <<today, journal, summaries, pending, inbox, apiKey, pc, runs, run, pre,
                   configVars>>

CallAutoWrapup ==
    /\ call = NoCall
    /\ \E d \in {Jan30, Jan31}, api \in {"entry text", "APIError"} :
          Called("auto_wrapup", d,
                 auto_wrapup(HeartbeatFiles @@ [log |-> <<>>], d, apiKey, api))

\* python -m summarizer.heartbeat
RunHeartbeat ==
    /\ call = NoCall
    /\ \E o \in HeartbeatOutcomes :
          Called("run_heartbeat", today,
                 run_heartbeat(HeartbeatFiles @@ [log |-> <<>>], today, apiKey, o))

NextHeartbeat == CallAutoWrapup \/ RunHeartbeat

SpecHeartbeat == InitHeartbeat /\ [][NextHeartbeat]_vars

-----------------------------------------------------------------------------
(* What a finished run did, read from its log *)

\* The places in the log of the last run where it did op
Did(op) == {i \in 1..Len(run.log) : run.log[i].op = op}

\* A summary run of main() has ended (returned, or was left by an exception)
SummaryRunEnded == pc = "exited" /\ ~run.args.check_replies

\* A --check-replies run of main() has ended
ReplyRunEnded == pc = "exited" /\ run.args.check_replies

\* The run left every file as it found it
FilesUnchanged ==
    /\ journal = pre.journal
    /\ summaries = pre.summaries
    /\ pending = pre.pending
    /\ gmailToken = pre.gmailToken

\* The run called the LLM API, wrote or renamed a file, or handed a message to Gmail
NoApiFileOrEmail ==
    /\ Did("messages.create") = {}
    /\ Did("write_text") = {}
    /\ Did("rename") = {}
    /\ Did("send_email") = {}
    /\ FilesUnchanged

\* main() got past the recency check, to gather_entries
PastRecencyCheck == run.at \notin {"needs_summary", "recent"}

\* The draft that save_draft writes today
TodaysDraft == IsoName(today, DraftSuffix)

-----------------------------------------------------------------------------
(* C1 *)

\* get_unread_replies could not read the inbox: no credentials, or HttpError
ReplyProcessingFailed ==
    \E i \in Did("print") :
        run.log[i].arg \in {"Failed to get Gmail credentials. Cannot check replies.",
                            "Gmail API error"}

\* C1: when main runs with --check-replies and reply processing fails (no Gmail
\* credentials, or a Gmail API error while listing or fetching the replies),
\* main prints an error and returns a nonzero exit code.
C1_FailedReplyRunExitsNonzero ==
    (ReplyRunEnded /\ ReplyProcessingFailed) => (run.returned /\ run.code # 0)

-----------------------------------------------------------------------------
(* C4 *)

\* C4: a run with --dry-run that found entries returns 0 and has called no
\* LLM API, written no file and sent no email.
C4_DryRunHasNoEffect ==
    (SummaryRunEnded /\ run.args.dry_run /\ run.entries # <<>>)
        => (run.returned /\ run.code = 0 /\ NoApiFileOrEmail)

C4_Witness ==
    /\ SummaryRunEnded /\ run.args.dry_run /\ run.entries # <<>>
    /\ run.at = "dry run"
    /\ apiKey /\ gmailToken = "expired"

-----------------------------------------------------------------------------
(* C5 *)

\* needs_summary(journal_path, days) as main() would get it at the start of the run
RecencyCheck == needs_summary(pre.journal, today, run.args.days)

\* C5: main gets past the recency check exactly when --force is set or
\* needs_summary is true; when --force is not set and needs_summary is false
\* it returns 0 having read no entry, called no LLM API, written no draft and
\* sent no email.
C5_RecencyCheckGates ==
    SummaryRunEnded =>
        /\ PastRecencyCheck <=>
              (run.args.force \/ (RecencyCheck.exc = "" /\ RecencyCheck.val))
        /\ (~run.args.force /\ RecencyCheck.exc = "" /\ ~RecencyCheck.val)
              => /\ run.returned /\ run.code = 0
                 /\ Did("read_text") = {}
                 /\ NoApiFileOrEmail

C5_Witness ==
    /\ SummaryRunEnded
    /\ ~run.args.force /\ ~run.args.dry_run /\ ~run.args.no_email
    /\ RecencyCheck.exc = "" /\ ~RecencyCheck.val
    /\ run.at = "recent"
    /\ \E n \in DOMAIN journal : EntryPattern(n) /\ n.month = 2 /\ n.day = 1

-----------------------------------------------------------------------------
(* C7 *)

\* generate_summary was called and raised: the key file is missing, or the
\* API call failed
GenerateRaised ==
    /\ PastRecencyCheck /\ run.exc = ""
    /\ run.entries # <<>> /\ ~run.args.dry_run
    /\ \/ ~apiKey
       \/ \E i \in Did("messages.create") : run.log[i].res = "APIError"

\* C7: if generate_summary raises, main returns 1, and in that run no draft
\* file is written and no email is sent.
C7_GenerateFailureExitsOne ==
    (SummaryRunEnded /\ GenerateRaised)
        => /\ run.returned /\ run.code = 1
           /\ Did("write_text") = {} /\ Did("send_email") = {}
           /\ FilesUnchanged

C7_Witness ==
    /\ SummaryRunEnded /\ GenerateRaised
    /\ apiKey /\ ~run.args.no_email /\ gmailToken = "valid"
    /\ \E i \in Did("messages.create") : run.log[i].res = "APIError"

-----------------------------------------------------------------------------
(* C8 *)

\* send_summary_email returned False
SummaryEmailFailed ==
    \E i \in Did("send_email") : run.log[i].res # "sent"

\* The draft was written before place i of the log
DraftWrittenBefore(i) ==
    \E j \in Did("write_text") : j < i /\ run.log[j].arg = TodaysDraft

\* C8: if sending the summary email fails after the draft was saved, main
\* still returns 0 and the saved draft is left in place; the email is
\* attempted only after the draft has been written.
C8_EmailFailureKeepsDraft ==
    SummaryRunEnded =>
        /\ \A i \in Did("send_email") : DraftWrittenBefore(i)
        /\ SummaryEmailFailed
              => /\ run.returned /\ run.code = 0
                 /\ TodaysDraft \in DOMAIN journal
                 /\ \E j \in Did("write_text") :
                       run.log[j].arg = TodaysDraft /\ journal[TodaysDraft] = run.log[j].res

C8_Witness ==
    /\ SummaryRunEnded /\ SummaryEmailFailed
    /\ \E i \in Did("send_email") : run.log[i].res = "HttpError"
    /\ TodaysDraft \notin DOMAIN pre.journal

-----------------------------------------------------------------------------
(* C9 *)

\* gather_entries(journal_path, days) as main() would get it in this run
Gathered == gather_entries(pre.journal, today, run.args.days)

\* C9: if gather_entries returns no entries for the lookback period, main
\* returns 1 without calling the LLM API, writing a file or sending an email.
C9_NoEntriesExitsOne ==
    (SummaryRunEnded /\ PastRecencyCheck /\ Gathered.exc = "" /\ Gathered.val = <<>>)
        => (run.returned /\ run.code = 1 /\ NoApiFileOrEmail)

C9_Witness ==
    /\ SummaryRunEnded /\ PastRecencyCheck
    /\ Gathered.exc = "" /\ Gathered.val = <<>>
    /\ DOMAIN pre.journal # {}
    /\ ~run.args.dry_run /\ apiKey

-----------------------------------------------------------------------------
(* C2 *)

\* A summary run saved the draft D, which is there when this run starts
DraftSavedByRun(D) ==
    D \in DOMAIN pre.journal /\ D.suffix = DraftSuffix /\ pre.journal[D] = "summary text"

\* The run classified a reply as APPROVE
ApprovedAReply ==
    \E i \in Did("print") :
        run.log[i].arg = "Classification" /\ run.log[i].res = "APPROVE"

\* C2: after a summary run has saved a draft <date>-SUMMARY-14-days-DRAFT.md,
\* processing a reply classified APPROVE renames that draft to the same name
\* without -DRAFT (the draft is gone, the finalized file is there) and
\* finalize_draft returns True.
C2_ApproveFinalizesDraft ==
    \A D \in (IF pc \in {"replies", "exited"} THEN DOMAIN pre.journal ELSE {}) :
        (run.args.check_replies /\ DraftSavedByRun(D) /\ ApprovedAReply)
            => /\ run.exc = ""
               /\ Did("rename") # {}
               /\ D \notin DOMAIN journal
               /\ WithoutDraft(D) \in DOMAIN journal

-----------------------------------------------------------------------------
(* C3 *)

\* The text is part of the prompt
PromptHas(prompt, text) ==
    \E i \in DOMAIN prompt.entries_text : prompt.entries_text[i].content = text

\* C3: feedback that a REVISE reply stored in pending-feedback.json is in the
\* prompt that the next generate_summary sends to the model.
C3_FeedbackInNextPrompt ==
    SummaryRunEnded =>
        \A i \in Did("messages.create") : \A k \in 1..Len(pre.pending.items) :
            PromptHas(run.log[i].arg.prompt, pre.pending.items[k].feedback)

-----------------------------------------------------------------------------
(* C6 *)

\* The dates of the files named YYYY-MM-DD-SUMMARY-14-days*.md
SummaryDates(dir) == {Date(n.month, n.day) : n \in {x \in DOMAIN dir : SummaryPattern(x)}}

\* The latest of a set of dates
Latest(D) == CHOOSE d \in D : \A e \in D : toordinal(e) <= toordinal(d)

\* C6: needs_summary returns True exactly when the directory holds no file
\* named YYYY-MM-DD-SUMMARY-14-days*.md, or when today minus the latest such
\* file's date is at least lookback_days; find_latest_summary returns the
\* maximum date over these files, and None when there are none.
C6_NeedsSummaryByLatest ==
    /\ (call.fn = "find_latest_summary" /\ call.result.exc = "")
          => call.result.val = IF SummaryDates(journal) = {} THEN NoDate
                               ELSE Latest(SummaryDates(journal))
    /\ (call.fn = "needs_summary" /\ call.result.exc = "")
          => (call.result.val <=>
                 \/ SummaryDates(journal) = {}
                 \/ toordinal(today) - toordinal(Latest(SummaryDates(journal))) >= call.days)

C6_Witness ==
    /\ call.fn = "needs_summary" /\ call.result.exc = ""
    /\ Cardinality(SummaryDates(journal)) = 2
    /\ call.days > 0
    /\ toordinal(today) - toordinal(Latest(SummaryDates(journal))) = call.days
    /\ call.result.val

-----------------------------------------------------------------------------
(* C10 *)

\* today - N <= d <= today
InLastDays(d, N) ==
    toordinal(today) - N <= toordinal(d) /\ toordinal(d) <= toordinal(today)

\* C10: gather_entries(path, N) returns exactly the files named YYYY-MM-DD.md
\* whose date lies within the last N days (today - N <= date <= today),
\* sorted by date ascending.
C10_GatherEntriesLastDays ==
    (call.fn = "gather_entries" /\ call.result.exc = "") =>
        LET es == call.result.val
        IN  /\ {es[i].filename : i \in 1..Len(es)} =
                  {n \in DOMAIN journal :
                      /\ EntryPattern(n)
                      /\ InLastDays(Date(n.month, n.day), call.days)}
            /\ \A i, j \in 1..Len(es) :
                  i < j => toordinal(es[i].date) < toordinal(es[j].date)

-----------------------------------------------------------------------------
(* C11 *)

\* C11: for every file name, parse_date_from_filename returns a date when the
\* name matches ^\d{4}-\d{2}-\d{2}\.md$ and None otherwise, and never raises;
\* so gather_entries is never left by an exception of the parser.
C11_ParseDateNeverRaises ==
    /\ call.fn = "parse_date_from_filename" =>
          /\ call.result.exc = ""
          /\ EntryPattern(call.name) <=> call.result.val # NoDate
    /\ call.fn = "gather_entries" => call.result.exc = ""

-----------------------------------------------------------------------------
(* C12 *)

\* r is base overlaid with overlay: r has the keys of both; a key of base
\* alone keeps base's value; a key of overlay has overlay's value, except
\* that where both hold dicts r holds the one overlaid with the other
RECURSIVE Overlaid(_, _, _)
Overlaid(r, b, o) ==
    /\ DOMAIN r = DOMAIN b \cup DOMAIN o
    /\ \A key \in DOMAIN b \ DOMAIN o : r[key] = b[key]
    /\ \A key \in DOMAIN o :
          IF key \in DOMAIN b /\ IsDict(b[key]) /\ IsDict(o[key])
          THEN IsDict(r[key]) /\ Overlaid(r[key].items, b[key].items, o[key].items)
          ELSE r[key] = o[key]

\* C12: _deep_merge(base, overlay) keeps base's value on every key that only
\* base has, has overlay's value on every key of overlay (dicts on both sides
\* merged recursively, any other value replaced entirely), and keeps the keys
\* that only overlay has.
C12_DeepMergeOverlays ==
    call.fn = "_deep_merge" =>
        /\ call.result.exc = ""
        /\ Overlaid(call.result.val, base, configYaml.doc.items)

\* A merge in which a section of both dicts was merged key by key: a setting
\* of base alone, one of overlay alone and one that overlay replaced
C12_Witness ==
    /\ call.fn = "_deep_merge"
    /\ \E s \in DOMAIN base \cap DOMAIN configYaml.doc.items :
          /\ IsDict(base[s]) /\ IsDict(configYaml.doc.items[s])
          /\ LET b == base[s].items
                 o == configYaml.doc.items[s].items
                 r == call.result.val[s].items
             IN  /\ DOMAIN b \ DOMAIN o # {}
                 /\ DOMAIN o \ DOMAIN b # {}
                 /\ DOMAIN r = ConfigKeys
    /\ \E k \in DOMAIN base \cap DOMAIN configYaml.doc.items :
          base[k] # configYaml.doc.items[k] /\ ~IsDict(base[k])

-----------------------------------------------------------------------------
(* C13 *)

\* C13: load_config never raises; with config.yaml absent, empty or not
\* parseable as YAML it returns DEFAULT_CONFIG, and for every parseable
\* content it returns the defaults overlaid with the file's values.
C13_LoadConfigNeverRaises ==
    call.fn = "load_config" =>
        /\ call.result.exc = ""
        /\ (~configYaml.exists \/ configYaml.parse = "YAMLError"
                \/ configYaml.doc = NoneValue) =>
               call.result.val = DEFAULT_CONFIG
        /\ (configYaml.exists /\ configYaml.parse = "ok" /\ IsDict(configYaml.doc)) =>
               Overlaid(call.result.val, DEFAULT_CONFIG, configYaml.doc.items)

-----------------------------------------------------------------------------
(* C14 *)

\* classify_reply got a response of the model and returned
Classified == call.fn = "classify_reply" /\ call.llm.api = "ok" /\ call.result.exc = ""

\* The text has "CLASSIFICATION:" followed by one of the three words
HasClassification(text) ==
    \E i \in 1..Len(text) :
        /\ text[i].key = "CLASSIFICATION"
        /\ text[i].val \in {"APPROVE", "APPROVED", "REVISE", "REVISED", "UNCLEAR"}

\* C14: for every response text of the model, the classification that
\* classify_reply returns is APPROVE, REVISE or UNCLEAR, and it is UNCLEAR
\* whenever the text has no match of CLASSIFICATION: <APPROVE|REVISE|UNCLEAR>.
C14_ClassificationIsOneOfThree ==
    Classified =>
        /\ call.result.val.classification \in {"APPROVE", "REVISE", "UNCLEAR"}
        /\ ~HasClassification(call.llm.text) => call.result.val.classification = "UNCLEAR"

\* A response that names a classification, but not in the form the regular
\* expression finds, was classified UNCLEAR
C14_Witness ==
    /\ Classified
    /\ \E i \in 1..Len(call.llm.text) : call.llm.text[i].val = "[APPROVE]"
    /\ ~HasClassification(call.llm.text)
    /\ call.result.val.classification = "UNCLEAR"

-----------------------------------------------------------------------------
(* C15 *)

\* The place in the log of the last run where it did op for the i-th time
Nth(op, i) == CHOOSE p \in Did(op) : Cardinality({q \in Did(op) : q <= p}) = i

\* The places where the run acted on a classification: renamed the draft or
\* wrote pending-feedback.json
DidAction ==
    Did("rename")
    \cup {p \in Did("write_text") : run.log[p].arg = PlainName(<<"pending-feedback.json">>)}

\* C15: for each fetched unread reply process_replies classifies it, acts on
\* the classification, sends the confirmation email and marks the reply as
\* read, in that order and one reply after the other; it returns the number
\* of replies fetched (0 when there are none).  Runs in which the LLM API
\* failed (no key file, an API error) are left aside.
C15_RepliesProcessedInOrder ==
    (ReplyRunEnded /\ run.exc \notin {"APIError", "FileNotFoundError"}) =>
        LET n == Len(run.replies)
        IN  /\ run.returned
            /\ run.processed = n
            /\ Cardinality(Did("messages.create")) = n
            /\ Cardinality(Did("send_email")) = n
            /\ \A i \in 1..n :
                  /\ Nth("messages.create", i) < Nth("send_email", i)
                  /\ i < n => Nth("send_email", i) < Nth("messages.create", i + 1)
            /\ \A p \in DidAction :
                  \E i \in 1..n : Nth("messages.create", i) < p /\ p < Nth("send_email", i)
            /\ \A p \in Did("mark_as_read") :
                  \E i \in 1..n :
                      /\ run.log[p].arg = run.replies[i].id
                      /\ Nth("send_email", i) < p
                      /\ i < n => p < Nth("messages.create", i + 1)

-----------------------------------------------------------------------------
(* C16 *)

\* The places that this pass of the loop of process_replies adds to the log
ThisPass == (Len(run.log) + 1)..Len(run'.log)

\* This step is a pass of the loop that classified its reply as k
PassClassified(k) ==
    /\ pc = "replies"
    /\ \E p \in ThisPass : run'.log[p] = Effect("print", "Classification", k)

\* The feedback the pass printed, "" when it printed none
PassFeedback ==
    LET prints == {p \in ThisPass : run'.log[p].op = "print" /\ run'.log[p].arg = "Feedback"}
    IN  IF prints = {} THEN "" ELSE run'.log[CHOOSE p \in prints : TRUE].res

\* The messages the pass handed to send_email
PassEmails == {p \in ThisPass : run'.log[p].op = "send_email"}

\* C16: processing a reply classified REVISE appends its feedback to
\* pending-feedback.json and leaves every draft and summary file unchanged;
\* processing a reply classified UNCLEAR changes no file at all and only
\* sends the clarification email.
C16_ReviseAndUnclearFrame ==
    [][/\ PassClassified("REVISE") =>
            /\ pending'.exists
            /\ pending'.items = Append(pending.items, [feedback |-> PassFeedback])
            /\ journal' = journal
            /\ summaries' = summaries
       /\ PassClassified("UNCLEAR") =>
            /\ journal' = journal
            /\ summaries' = summaries
            /\ pending' = pending
            /\ gmailToken' = gmailToken
            /\ \A p \in ThisPass : run'.log[p].op \notin {"write_text", "rename"}
            /\ Cardinality(PassEmails) = 1
            /\ \A p \in PassEmails : run'.log[p].arg.subject = <<"Clarification Needed">>
      ]_vars

\* A run that processed a REVISE reply after an earlier feedback was pending,
\* and an UNCLEAR reply
C16_Witness ==
    /\ ReplyRunEnded
    /\ run.exc = ""
    /\ \E p \in Did("print") : run.log[p] = Effect("print", "Classification", "REVISE")
    /\ \E p \in Did("print") : run.log[p] = Effect("print", "Classification", "UNCLEAR")
    /\ \E p \in Did("send_email") : run.log[p].arg.subject = <<"Clarification Needed">>
    /\ pre.pending.exists
    /\ Len(pending.items) = Len(pre.pending.items) + 1

-----------------------------------------------------------------------------
(* C17 *)

\* The places in the log of the last direct call where it did op
CallDid(op) == {i \in 1..Len(call.log) : call.log[i].op = op}

\* The entry and the checkpoint file of the date of the last call
EntryOfCall == IsoName(call.date, EntrySuffix)
CheckpointOfCall == IsoName(call.date, CheckpointSuffix)

\* C17: auto_wrapup(d) never overwrites an existing journal entry: when <d>.md
\* exists in the entries directory, its content is the same after the call
\* and no synthesis call is made.
C17_WrapupKeepsExistingEntry ==
    (call.fn = "auto_wrapup" /\ EntryOfCall \in DOMAIN call.before.entriesDir) =>
        /\ EntryOfCall \in DOMAIN entriesDir
        /\ entriesDir[EntryOfCall] = call.before.entriesDir[EntryOfCall]
        /\ CallDid("messages.create") = {}

-----------------------------------------------------------------------------
(* C18 *)

\* C18: auto_wrapup(d) returns False exactly when no checkpoint file for d
\* exists; otherwise it returns True, and on return a journal entry for d
\* exists and the checkpoint file for d has been removed.  Calls in which
\* the LLM API failed (no key file, an API error) are left aside.
C18_WrapupReturnsByCheckpoint ==
    (call.fn = "auto_wrapup" /\ call.result.exc \notin {"APIError", "FileNotFoundError"}) =>
        /\ call.result.exc = ""
        /\ call.result.val = FALSE <=> CheckpointOfCall \notin DOMAIN call.before.stagingDir
        /\ call.result.val = TRUE =>
              /\ EntryOfCall \in DOMAIN entriesDir
              /\ CheckpointOfCall \notin DOMAIN stagingDir

-----------------------------------------------------------------------------
(* C19 *)

\* Every checkpoint file of the staging directory carries a calendar date
CheckpointsDated ==
    \A f \in DOMAIN call.before.stagingDir :
        CheckpointPattern(f) => IsCalendarDate(f.month, f.day)

\* C19: every run of run_heartbeat attempts to send the heartbeat email and
\* ends by returning 0 if the email was sent and 1 otherwise, also when the
\* wrap-up of a stale checkpoint fails (no API key file, an LLM API error).
C19_HeartbeatAlwaysSendsAndReturns ==
    (call.fn = "run_heartbeat" /\ CheckpointsDated) =>
        /\ call.result.exc = ""
        /\ Cardinality(CallDid("send_email")) = 1
        /\ \A p \in CallDid("send_email") :
              /\ call.log[p].arg.subject = <<"Daily Heartbeat", today>>
              /\ call.result.val = (IF call.log[p].res = "sent" THEN 0 ELSE 1)

====
